---- MODULE Spec2Model ----
(***************************************************************************)
(* Science_News_Scanner.py: one "Run Deep Scan" pass.  Three source        *)
(* adapters (OpenAlex, OSF, RSS) feed an aggregation step that removes     *)
(* duplicate titles; the survivors are shuffled, capped, judged one by one *)
(* by an external service, sorted by score and rendered.                   *)
(*                                                                         *)
(* Text is a sequence of one-character strings, so that lower-casing,      *)
(* substring search, concatenation and truncation are computed.            *)
(***************************************************************************)
EXTENDS Integers, Sequences, FiniteSets, TLC

(***************************************************************************)
(* Bounds of the model.                                                    *)
(***************************************************************************)
\* items in one upstream response (besides the bulk response)
MaxItems == 2
\* upstream items read in one run (besides the bulk response)
MaxFetched == 2
\* the model runs the first MaxQueries of the OpenAlex queries
MaxQueries == 2
\* the model polls the first MaxFeeds of the feed urls
MaxFeeds == 1
\* lists of at most MaxShuffle articles are shuffled into every permutation,
\* longer ones into the identity and the reversal only
MaxShuffle == 1
\* the last MaxVaried judgments of a run draw any reply, earlier ones the
\* service's plain "NO" verdict
MaxVaried == 3
\* the bulk response carries MaxAnalyzed + BulkExtra items
BulkExtra == 1

(***************************************************************************)
(* Program constants.                                                      *)
(***************************************************************************)
ConceptCap == 5
OsfSummaryCap == 500
RssEntryCap == 10
RssSummaryCap == 600
MaxAnalyzed == 25
Threshold == 6
MissingScoreDefault == 0

EXCLUDE_TERMS ==
    << <<"c","l","a","s","s","r","o","o","m">>,
       <<"e","d","u","c","a","t","i","o","n">>,
       <<"p","e","d","a","g","o","g","y">>,
       <<"c","u","r","r","i","c","u","l","u","m">>,
       <<"f","u","n","d","i","n","g">>,
       <<"p","o","l","i","c","y">>,
       <<"o","b","i","t","u","a","r","y">>,
       <<"c","o","r","r","e","c","t","i","o","n">>,
       <<"e","r","r","a","t","u","m">>,
       <<"d","i","v","e","r","s","i","t","y">>,
       <<"s","t","u","d","e","n","t">>,
       <<"c","a","m","p","u","s">>,
       <<"u","n","d","e","r","g","r","a","d","u","a","t","e">>,
       <<"f","l","i","p","p","e","d">> >>

relevant_keywords ==
    << <<"q","u","a","n","t","u","m">>,
       <<"a","i">>,
       <<"i","n","t","e","l","l","i","g","e","n","c","e">>,
       <<"n","e","u","r","a","l">>,
       <<"p","h","y","s","i","c","s">>,
       <<"b","i","o">>,
       <<"g","e","n","o","m","e">>,
       <<"s","p","a","c","e">>,
       <<"t","i","m","e">>,
       <<"s","i","m","u","l","a","t","i","o","n">> >>

\* the first " OR " fragment of each query; the second and third string
\* literals of the list are adjacent, so Python joins them into one query
queries ==
    << "time travel", "quantum", "quantum entanglement", "synthetic biology",
       "consciousness", "biology", "Earth", "futurism" >>

feed_urls ==
    << "http://export.arxiv.org/rss/quant-ph",
       "http://export.arxiv.org/rss/cs.AI",
       "http://export.arxiv.org/rss/q-bio",
       "http://export.arxiv.org/rss/gr-qc",
       "http://www.nature.com/subjects/scientific-reports.rss",
       "https://www.pnas.org/action/showFeed?type=etoc&journalCode=pnas" >>

(***************************************************************************)
(* Text.                                                                   *)
(***************************************************************************)
UpperAlpha ==
    << "A","B","C","D","E","F","G","H","I","J","K","L","M",
       "N","O","P","Q","R","S","T","U","V","W","X","Y","Z" >>
LowerAlpha ==
    << "a","b","c","d","e","f","g","h","i","j","k","l","m",
       "n","o","p","q","r","s","t","u","v","w","x","y","z" >>

LowerOf == [k \in 1..Len(UpperAlpha) |-> LowerAlpha[k]]
UpperSet == { UpperAlpha[k] : k \in 1..Len(UpperAlpha) }
IndexOfUpper == [c \in UpperSet |-> CHOOSE k \in 1..Len(UpperAlpha) : UpperAlpha[k] = c]

LowerChar(c) == IF c \in UpperSet THEN LowerOf[IndexOfUpper[c]] ELSE c

\* str.lower()
Lower(s) == [k \in 1..Len(s) |-> LowerChar(s[k])]

\* Python's `term in text`
Contains(text, term) ==
    \E k \in 0..(Len(text) - Len(term)) :
        \A j \in 1..Len(term) : text[k + j] = term[j]

\* s[:n]
Truncate(s, n) == IF Len(s) <= n THEN s ELSE SubSeq(s, 1, n)

Pad(n) == [k \in 1..n |-> "x"]

\* an upstream field: a string, JSON null, or absent
Str(s) == [tag |-> "str", val |-> s]
Null == [tag |-> "null", val |-> <<>>]
Absent == [tag |-> "absent", val |-> <<>>]

(***************************************************************************)
(* is_junk                                                                 *)
(***************************************************************************)
is_junk_CaseSensitive(title, summary) ==
    LET text == title \o <<" ">> \o summary
    IN  \E t \in 1..Len(EXCLUDE_TERMS) : Contains(text, EXCLUDE_TERMS[t])

is_junk(title, summary) ==
    LET text == Lower(title \o <<" ">> \o summary)
    IN  \E t \in 1..Len(EXCLUDE_TERMS) : Contains(text, EXCLUDE_TERMS[t])

(***************************************************************************)
(* Upstream data.  A response either raises in requests.get (timeout,      *)
(* refused connection) or carries a status and a body; the body parses or  *)
(* does not, and a parsed body holds a list of items.                      *)
(***************************************************************************)
TextQG == <<"Q","u","a","n","t","u","m"," ","g","r","a","v","i","t","y">>
TextMaps == <<"M","a","p","s">>
TextCampusAI == <<"C","a","m","p","u","s"," ","A","I">>
TextFoam == <<"q","u","a","n","t","u","m"," ","f","o","a","m">>
TextFlipped == <<"F","l","i","p","p","e","d"," ","c","l","a","s","s","r","o","o","m">>
TextEducation == <<"E","d","u","c","a","t","i","o","n">>
TextPhysics == <<"P","h","y","s","i","c","s">>
TextExoplanet == <<"N","e","w"," ","e","x","o","p","l","a","n","e","t">>
TextAi == <<"a","i">>
TextKeyConcepts == <<"K","e","y"," ","C","o","n","c","e","p","t","s",":"," ">>
TextCommaSpace == <<","," ">>

\* OpenAlex works: title, doi, id, concepts (each with or without display_name)
OpenAlexItems ==
    { [title |-> Str(TextQG), doi |-> "doi:1", id |-> "W1", concepts |-> <<Str(TextPhysics)>>],
      [title |-> Null, doi |-> "None", id |-> "W2", concepts |-> <<>>],
      [title |-> Str(TextMaps), doi |-> "None", id |-> "W4",
       concepts |-> <<Str(TextPhysics), Str(TextEducation)>>],
      [title |-> Str(TextExoplanet), doi |-> "doi:5", id |-> "W5", concepts |-> <<Absent>>] }

\* OSF preprints: attributes.title, attributes.description, links.html
OsfItems ==
    { [title |-> Str(TextQG), desc |-> Absent, html |-> "osf.io/1"],
      [title |-> Absent, desc |-> Str(TextFoam), html |-> "osf.io/2"],
      [title |-> Null, desc |-> Str(TextFoam), html |-> "osf.io/3"],
      [title |-> Str(TextCampusAI), desc |-> Null, html |-> "osf.io/4"],
      [title |-> Str(TextMaps), desc |-> Str(Pad(OsfSummaryCap) \o TextAi), html |-> "osf.io/5"],
      [title |-> Str(TextMaps), desc |-> Str(<<>>), html |-> "osf.io/6"] }

\* feed entries: title, summary, link (attributes that may be absent)
RssEntries ==
    { [title |-> Str(TextQG), summary |-> Str(TextFoam), link |-> "arxiv.org/1"],
      [title |-> Str(TextFlipped), summary |-> Absent, link |-> "arxiv.org/2"],
      [title |-> Absent, summary |-> Str(TextFoam), link |-> "arxiv.org/3"],
      [title |-> Str(<<>>), summary |-> Str(TextFoam), link |-> "arxiv.org/4"] }

\* feed.feed.title: absent, or present and empty
FeedTitles == { "absent", "" }

\* a response of more items than the judgment stage accepts, all well-formed
\* and with distinct titles
BulkItems ==
    [k \in 1..(MaxAnalyzed + BulkExtra) |->
        [title |-> Str(Pad(k)), doi |-> "None", id |-> "W0", concepts |-> <<>>]]

SeqsUpTo(S, n) == UNION { [1..m -> S] : m \in 0..n }

Statuses == {200, 500}

Raising == [raises |-> TRUE, status |-> 0, parsable |-> FALSE, feedtitle |-> "absent", items |-> <<>>]

Responses(Items, titles, extra) ==
    {Raising}
    \cup [raises : {FALSE}, status : Statuses, parsable : {FALSE}, feedtitle : {"absent"},
          items : {<<>>}]
    \cup [raises : {FALSE}, status : Statuses, parsable : {TRUE}, feedtitle : titles,
          items : SeqsUpTo(Items, MaxItems) \cup extra]

\* what each adapter's request may receive
OpenAlexResponses == Responses(OpenAlexItems, {"absent"}, {BulkItems})
OsfResponses == Responses(OsfItems, {"absent"}, {})
RssResponses == Responses(RssEntries, FeedTitles, {})

(***************************************************************************)
(* fetch_openalex_targeted                                                 *)
(***************************************************************************)
\* Python's `a or b` on values that are None, "" or a non-empty string
PyOr(a, b) == IF a \in {"None", ""} THEN b ELSE a

RECURSIVE Join(_)
\* ', '.join(names)
Join(names) ==
    IF Len(names) = 0 THEN <<>>
    ELSE IF Len(names) = 1 THEN names[1]
    ELSE names[1] \o TextCommaSpace \o Join(Tail(names))

\* the body of one iteration of `for item in data.get('results', [])`:
\* "skip" (continue), "raise" (c['display_name'] fails), or "emit"/"junk"
OpenAlexItem(item, q, uid) ==
    IF item.title.tag # "str" \/ item.title.val = <<>>
    THEN [act |-> "skip"]
    ELSE LET concepts == Truncate(item.concepts, ConceptCap)
         IN  IF \E c \in 1..Len(concepts) : concepts[c].tag # "str"
             THEN [act |-> "raise"]
             ELSE LET summary == TextKeyConcepts
                                 \o Join([c \in 1..Len(concepts) |-> concepts[c].val])
                  IN  IF ~is_junk(item.title.val, summary)
                      THEN [act |-> "emit",
                            article |-> [title |-> item.title.val,
                                         link |-> PyOr(item.doi, item.id),
                                         summary |-> summary,
                                         source |-> <<"OpenAlex (", queries[q], "...)">>,
                                         uid |-> uid]]
                      ELSE [act |-> "junk"]

RECURSIVE OpenAlexLoop(_, _, _, _)
\* the item loop from item k on; an exception leaves the loop, the articles
\* appended so far stay
OpenAlexLoop(items, k, q, acc) ==
    IF k > Len(items) THEN [articles |-> acc, read |-> Len(items), ok |-> TRUE]
    ELSE LET r == OpenAlexItem(items[k], q, <<"openalex", q, k>>)
         IN  IF r.act = "raise" THEN [articles |-> acc, read |-> k, ok |-> TRUE]
             ELSE IF r.act = "emit" THEN OpenAlexLoop(items, k + 1, q, Append(acc, r.article))
             ELSE OpenAlexLoop(items, k + 1, q, acc)

Nothing == [articles |-> <<>>, read |-> 0, ok |-> TRUE]

OpenAlexQuery_Uncaught(q, resp) ==
    IF resp.raises THEN [articles |-> <<>>, read |-> 0, ok |-> FALSE]
    ELSE IF resp.status = 200 /\ resp.parsable
         THEN OpenAlexLoop(resp.items, 1, q, <<>>)
         ELSE Nothing

\* one iteration of `for q in queries`: what it appends to articles
OpenAlexQuery(q, resp) ==
    IF resp.raises THEN Nothing
    ELSE IF resp.status = 200
         THEN IF resp.parsable THEN OpenAlexLoop(resp.items, 1, q, <<>>) ELSE Nothing
         ELSE Nothing

(***************************************************************************)
(* fetch_osf_preprints                                                     *)
(***************************************************************************)
is_relevant_Always(full_text) == TRUE

\* any(k in full_text for k in relevant_keywords)
is_relevant(full_text) ==
    \E k \in 1..Len(relevant_keywords) : Contains(full_text, relevant_keywords[k])

\* what one iteration of `for item in data.get('data', [])` does with an
\* item: "raise" (None + str), "junk" and "skip" (nothing appended) or "emit"
OsfDecision(item) ==
    IF item.title.tag = "null"
    THEN "raise"
    ELSE LET title == item.title.val       \* attrs.get('title', '')
             desc == item.desc.val         \* attrs.get('description', '') or ""
             full_text == Lower(title \o desc)
         IN  IF is_junk(title, desc) THEN "junk"
             ELSE IF is_relevant(full_text) THEN "emit" ELSE "skip"

\* the decision for every item of the model, computed once
OsfDecisions == { <<item, OsfDecision(item)>> : item \in OsfItems }
OsfDecisionOf(item) ==
    CHOOSE d \in {"raise", "junk", "emit", "skip"} : <<item, d>> \in OsfDecisions

\* the body of one iteration of the item loop
OsfItem(item, uid) ==
    IF OsfDecisionOf(item) = "emit"
    THEN [act |-> "emit",
          article |-> [title |-> item.title.val,
                       link |-> item.html,
                       summary |-> Truncate(item.desc.val, OsfSummaryCap),
                       source |-> <<"OSF Preprint">>,
                       uid |-> uid]]
    ELSE [act |-> OsfDecisionOf(item)]

RECURSIVE OsfLoop(_, _, _)
OsfLoop(items, k, acc) ==
    IF k > Len(items) THEN [articles |-> acc, read |-> Len(items), ok |-> TRUE]
    ELSE LET r == OsfItem(items[k], <<"osf", 1, k>>)
         IN  IF r.act = "raise" THEN [articles |-> acc, read |-> k, ok |-> TRUE]
             ELSE IF r.act = "emit" THEN OsfLoop(items, k + 1, Append(acc, r.article))
             ELSE OsfLoop(items, k + 1, acc)

\* the try block of fetch_osf_preprints: r.status_code is never read
OsfRequest(resp) ==
    IF resp.raises THEN Nothing
    ELSE IF resp.parsable THEN OsfLoop(resp.items, 1, <<>>) ELSE Nothing

(***************************************************************************)
(* fetch_rss_feeds                                                         *)
(***************************************************************************)
\* the body of one iteration of `for entry in feed.entries[:10]`
RssEntry(entry, feedtitle, uid) ==
    IF entry.title.tag # "str"
    THEN [act |-> "raise"]      \* entry.title: AttributeError
    ELSE LET title == entry.title.val
             summary == Truncate(entry.summary.val, RssSummaryCap)
         IN  IF is_junk(title, summary) THEN [act |-> "junk"]
             ELSE IF entry.link = "absent"
                  THEN [act |-> "raise"]      \* entry.link: AttributeError
                  ELSE [act |-> "emit",
                        article |-> [title |-> title,
                                     link |-> entry.link,
                                     summary |-> summary,
                                     source |-> <<IF feedtitle = "absent"
                                                  THEN "RSS Source" ELSE feedtitle>>,
                                     uid |-> uid]]

RECURSIVE RssLoop(_, _, _, _, _)
RssLoop(entries, k, f, feedtitle, acc) ==
    IF k > Len(entries) THEN [articles |-> acc, read |-> Len(entries), ok |-> TRUE]
    ELSE LET r == RssEntry(entries[k], feedtitle, <<"rss", f, k>>)
         IN  IF r.act = "raise" THEN [articles |-> acc, read |-> k, ok |-> TRUE]
             ELSE IF r.act = "emit"
                  THEN RssLoop(entries, k + 1, f, feedtitle, Append(acc, r.article))
             ELSE RssLoop(entries, k + 1, f, feedtitle, acc)

\* one iteration of `for url in feed_urls`; feedparser.parse does not raise on
\* content it cannot parse, it yields a feed without entries; the status of
\* the response is never read
RssFeed(f, resp) ==
    IF resp.raises THEN Nothing
    ELSE IF resp.parsable
         THEN RssLoop(Truncate(resp.items, RssEntryCap), 1, f, resp.feedtitle, <<>>)
         ELSE Nothing

(***************************************************************************)
(* main: aggregation                                                       *)
(***************************************************************************)
Titles(articles) == { articles[k].title : k \in 1..Len(articles) }

RECURSIVE DictOfTitles(_, _, _)
\* {v['title']: v for v in all_articles}: keys keep the order of their first
\* insertion, a later article with the same title replaces the value
DictOfTitles(articles, k, d) ==
    IF k > Len(articles) THEN d
    ELSE LET v == articles[k]
         IN  IF \E j \in 1..Len(d) : d[j].title = v.title
             THEN DictOfTitles(articles, k + 1,
                      [j \in 1..Len(d) |-> IF d[j].title = v.title THEN v ELSE d[j]])
             ELSE DictOfTitles(articles, k + 1, Append(d, v))

Unique_KeepAll(all_articles) == all_articles

\* list({...}.values())
Unique(all_articles) == DictOfTitles(all_articles, 1, <<>>)

(***************************************************************************)
(* analyze_with_ai                                                         *)
(***************************************************************************)
Reverse(s) == [k \in 1..Len(s) |-> s[Len(s) + 1 - k]]

\* the orders random.shuffle may leave the list in
Shuffles(s) ==
    IF Len(s) <= MaxShuffle
    THEN { [k \in 1..Len(s) |-> s[f[k]]] :
             f \in { g \in [1..Len(s) -> 1..Len(s)] :
                       \A a, b \in 1..Len(s) : a # b => g[a] # g[b] } }
    ELSE { s, Reverse(s) }

\* what client.chat.completions.create gives for one article: the call raises,
\* or message.content is not JSON, or it is JSON with or without each key
Num(n) == [tag |-> "num", val |-> n]
NoNum(t) == [tag |-> t, val |-> 0]
Reply(score, headline, reason) ==
    [raises |-> FALSE, json |-> TRUE, score |-> score, headline |-> headline, reason |-> reason]
ReplyApiError ==
    [raises |-> TRUE, json |-> FALSE, score |-> NoNum("absent"), headline |-> FALSE, reason |-> FALSE]
ReplyNotJson ==
    [raises |-> FALSE, json |-> FALSE, score |-> NoNum("absent"), headline |-> FALSE, reason |-> FALSE]
ReplyNo == Reply(Num(0), TRUE, TRUE)

JudgeReplies ==
    { ReplyApiError, ReplyNotJson, ReplyNo,
      Reply(NoNum("absent"), TRUE, TRUE),
      Reply(NoNum("str"), TRUE, TRUE),
      Reply(Num(5), TRUE, TRUE),
      Reply(Num(6), TRUE, TRUE),
      Reply(Num(9), TRUE, TRUE),
      Reply(Num(8), FALSE, TRUE) }

AtLeast_Strict(score, threshold) == score > threshold

\* data.get("score", 0) >= 6, on numbers
AtLeast(score, threshold) == score >= threshold

\* the try block of one iteration: "error" (the except clause), "keep"
\* (results.append) or "low"
JudgeOutcome(reply) ==
    IF reply.raises \/ ~reply.json THEN "error"
    ELSE IF reply.score.tag \in {"str", "null"} THEN "error"    \* str >= int
    ELSE LET score == IF reply.score.tag = "absent"
                      THEN MissingScoreDefault ELSE reply.score.val
         IN  IF AtLeast(score, Threshold) THEN "keep" ELSE "low"

RECURSIVE InsertByScore(_, _)
\* x goes after every element whose score is not lower than its own
InsertByScore(sorted, x) ==
    IF Len(sorted) = 0 THEN <<x>>
    ELSE IF Head(sorted).ai_data.score.val >= x.ai_data.score.val
         THEN <<Head(sorted)>> \o InsertByScore(Tail(sorted), x)
         ELSE <<x>> \o sorted

RECURSIVE SortWinners(_)
\* winners.sort(key=lambda x: x['ai_data']['score'], reverse=True): stable,
\* equal scores keep the order of the list
SortWinners(results) ==
    IF Len(results) = 0 THEN <<>>
    ELSE InsertByScore(SortWinners(SubSeq(results, 1, Len(results) - 1)),
                       results[Len(results)])

(***************************************************************************)
(* main: rendering                                                         *)
(***************************************************************************)
\* item['ai_data']['headline'] and item['ai_data']['reason'] are both there
Renders(item) == item.ai_data.headline /\ item.ai_data.reason

RECURSIVE RenderLoop(_, _)
\* the winners rendered before the loop ends or a KeyError leaves it
RenderLoop(list, k) ==
    IF k > Len(list) \/ ~Renders(list[k]) THEN SubSeq(list, 1, k - 1)
    ELSE RenderLoop(list, k + 1)

(***************************************************************************)
(* The run.                                                                *)
(***************************************************************************)
VARIABLES
    pc,          \* where the run is
    qi,          \* index of the OpenAlex query to issue next
    fi,          \* index of the feed url to poll next
    list_1,      \* articles of fetch_openalex_targeted
    list_2,      \* articles of fetch_osf_preprints
    list_3,      \* articles of fetch_rss_feeds
    final_list,  \* the aggregated list
    selection,   \* articles[:25] after the shuffle
    i,           \* position of the judgment loop in selection
    results,     \* results of analyze_with_ai so far
    winners,     \* the sorted results
    rendered,    \* the winners rendered so far
    last,        \* the request just made: its response and what it appended
    verdicts,    \* the replies of the judgment service, in order
    life         \* per upstream item read: where the candidate is

vars == << pc, qi, fi, list_1, list_2, list_3, final_list, selection, i,
           results, winners, rendered, last, verdicts, life >>

NoRequest == [adapter |-> "none", idx |-> 0, resp |-> Raising, out |-> Nothing]

NumQueries == IF MaxQueries < Len(queries) THEN MaxQueries ELSE Len(queries)
NumFeeds == IF MaxFeeds < Len(feed_urls) THEN MaxFeeds ELSE Len(feed_urls)

Init ==
    /\ pc = "openalex"
    /\ qi = 1
    /\ fi = 1
    /\ list_1 = <<>>
    /\ list_2 = <<>>
    /\ list_3 = <<>>
    /\ final_list = <<>>
    /\ selection = <<>>
    /\ i = 0
    /\ results = <<>>
    /\ winners = <<>>
    /\ rendered = <<>>
    /\ last = NoRequest
    /\ verdicts = <<>>
    /\ life = << >>

\* the responses the model lets a request receive now
WithinBudget(resp) ==
    \/ Len(resp.items) = 0
    \/ Cardinality(DOMAIN life) + Len(resp.items) <= MaxFetched
    \/ resp.items = BulkItems /\ DOMAIN life = {}

\* the items a request read: appended (Pending) or not (Dropped)
Fates(adapter, idx, out) ==
    [u \in { <<adapter, idx, k>> : k \in 1..out.read } |->
        IF \E a \in 1..Len(out.articles) : out.articles[a].uid = u
        THEN "Pending" ELSE "DroppedRelevance"]

AfterFetch(adapter, idx, resp, out, next) ==
    /\ last' = [adapter |-> adapter, idx |-> idx, resp |-> resp, out |-> out]
    /\ life' = life @@ Fates(adapter, idx, out)
    /\ pc' = IF out.ok THEN next ELSE "crashed"

FetchOpenAlex ==
    /\ pc = "openalex"
    /\ \E resp \in OpenAlexResponses :
          /\ WithinBudget(resp)
          /\ LET out == OpenAlexQuery(qi, resp)
             IN  /\ list_1' = list_1 \o out.articles
                 /\ AfterFetch("openalex", qi, resp, out,
                               IF qi = NumQueries THEN "osf" ELSE "openalex")
    /\ qi' = qi + 1
    /\ UNCHANGED << fi, list_2, list_3, final_list, selection, i, results, winners,
                    rendered, verdicts >>

FetchOsf ==
    /\ pc = "osf"
    /\ \E resp \in OsfResponses :
          /\ WithinBudget(resp)
          /\ LET out == OsfRequest(resp)
             IN  /\ list_2' = out.articles
                 /\ AfterFetch("osf", 1, resp, out, "rss")
    /\ UNCHANGED << qi, fi, list_1, list_3, final_list, selection, i, results, winners,
                    rendered, verdicts >>

FetchRss ==
    /\ pc = "rss"
    /\ \E resp \in RssResponses :
          /\ WithinBudget(resp)
          /\ LET out == RssFeed(fi, resp)
             IN  /\ list_3' = list_3 \o out.articles
                 /\ AfterFetch("rss", fi, resp, out,
                               IF fi = NumFeeds THEN "aggregate" ELSE "rss")
    /\ fi' = fi + 1
    /\ UNCHANGED << qi, list_1, list_2, final_list, selection, i, results, winners,
                    rendered, verdicts >>

\* all_articles = list_1 + list_2 + list_3 and the removal of duplicates
Aggregate ==
    /\ pc = "aggregate"
    /\ final_list' = Unique(list_1 \o list_2 \o list_3)
    /\ pc' = "analyze"
    /\ last' = NoRequest
    /\ UNCHANGED << qi, fi, list_1, list_2, list_3, selection, i, results, winners,
                    rendered, verdicts, life >>

\* random.shuffle(articles); selection = articles[:25]; if total == 0: return []
StartAnalysis ==
    /\ pc = "analyze"
    /\ \E shuffled \in Shuffles(final_list) :
          /\ final_list' = shuffled
          /\ selection' = Truncate(shuffled, MaxAnalyzed)
    /\ i' = 1
    /\ pc' = IF Len(final_list) = 0 THEN "render" ELSE "judge"
    /\ UNCHANGED << qi, fi, list_1, list_2, list_3, results, winners, rendered, last,
                    verdicts, life >>

NextArticle_Same(k) == k

\* enumerate(selection) moves on
NextArticle(k) == k + 1

Stage(outcome) ==
    IF outcome = "error" THEN "DroppedJudgment"
    ELSE IF outcome = "keep" THEN "Winner" ELSE "Discarded"

\* one iteration of the judgment loop; after the last one analyze_with_ai
\* returns and main sorts the winners
Judge ==
    /\ pc = "judge"
    /\ \E reply \in JudgeReplies :
          /\ i > Len(selection) - MaxVaried \/ reply = ReplyNo
          /\ LET article == selection[i]
                 outcome == JudgeOutcome(reply)
                 kept == IF outcome = "keep"
                         THEN Append(results, [original |-> article, ai_data |-> reply])
                         ELSE results
             IN  /\ results' = kept
                 /\ verdicts' = Append(verdicts, [uid |-> article.uid, reply |-> reply])
                 /\ life' = [life EXCEPT ![article.uid] = Stage(outcome)]
                 /\ IF i = Len(selection)
                    THEN /\ winners' = SortWinners(kept)
                         /\ pc' = "render"
                    ELSE /\ winners' = winners
                         /\ pc' = "judge"
    /\ i' = NextArticle(i)
    /\ UNCHANGED << qi, fi, list_1, list_2, list_3, final_list, selection, rendered, last >>

\* the header and the loop over the winners; a KeyError ends the script
Render ==
    /\ pc = "render"
    /\ rendered' = RenderLoop(winners, 1)
    /\ pc' = IF Len(rendered') = Len(winners) THEN "done" ELSE "crashed"
    /\ UNCHANGED << qi, fi, list_1, list_2, list_3, final_list, selection, i, results,
                    winners, last, verdicts, life >>

Next ==
    \/ FetchOpenAlex
    \/ FetchOsf
    \/ FetchRss
    \/ Aggregate
    \/ StartAnalysis
    \/ Judge
    \/ Render

Spec == Init /\ [][Next]_vars

(***************************************************************************)
(* Vocabulary of the properties.                                           *)
(***************************************************************************)
Range(seq) == { seq[k] : k \in 1..Len(seq) }

Originals(list) == { list[k].original : k \in 1..Len(list) }

\* every candidate the run holds, in any list
Candidates ==
    Range(list_1) \cup Range(list_2) \cup Range(list_3) \cup Range(final_list)
    \cup Range(selection) \cup Originals(results) \cup Originals(winners)
    \cup Originals(rendered)

Uids(list) == { list[k].uid : k \in 1..Len(list) }

FetchStages == {"openalex", "osf", "rss"}
Sorted == {"render", "done", "crashed"}

\* some term of EXCLUDE_TERMS occurs in title + " " + summary, whatever the case
HasExcludedTerm(title, summary) ==
    \E t \in 1..Len(EXCLUDE_TERMS) :
        Contains(Lower(title \o <<" ">> \o summary), EXCLUDE_TERMS[t])

\* some include keyword of the OSF adapter occurs in the text, whatever the case
HasKeyword(text) ==
    \E k \in 1..Len(relevant_keywords) : Contains(Lower(text), relevant_keywords[k])

(***************************************************************************)
(* C1. Exclusion dominance: no candidate emitted by an adapter, and so none *)
(* in the aggregated list or among the winners, has a term of               *)
(* EXCLUDE_TERMS as a case-insensitive substring of title + " " + summary,  *)
(* whether or not an include keyword matches.                               *)
(***************************************************************************)
\* the titles and the summaries upstream data of the model can give rise to
KnownTitles ==
    { x.title.val : x \in OpenAlexItems \cup OsfItems \cup RssEntries \cup Range(BulkItems) }
KnownSummaries ==
    { TextKeyConcepts \o Join([c \in 1..Len(x.concepts) |-> x.concepts[c].val]) :
        x \in OpenAlexItems \cup Range(BulkItems) }
    \cup { Truncate(x.desc.val, OsfSummaryCap) : x \in OsfItems }
    \cup { Truncate(x.summary.val, RssSummaryCap) : x \in RssEntries }

\* the pairs of them in which no excluded term occurs, computed once
CleanTexts ==
    { y[1] : y \in { z \in { <<x, HasExcludedTerm(x[1], x[2])>> :
                                x \in KnownTitles \X KnownSummaries } : ~z[2] } }

C1_ExclusionDominance ==
    \A a \in Candidates : <<a.title, a.summary>> \in CleanTexts

\* the OSF request read a record that matches an include keyword and an
\* exclude term, and emitted another record but not that one
C1_Witness ==
    /\ last.adapter = "osf"
    /\ list_2 # <<>>
    /\ \E k \in 1..last.out.read :
          LET item == last.resp.items[k]
          IN  /\ item.title.tag = "str"
              /\ HasExcludedTerm(item.title.val, item.desc.val)
              /\ HasKeyword(item.title.val \o item.desc.val)
              /\ <<"osf", 1, k>> \notin Uids(list_2)

(***************************************************************************)
(* C2. Deduplication by title: after aggregation final_list holds exactly   *)
(* one candidate of the concatenated adapter outputs for each distinct      *)
(* title in them, and deduplicating final_list again changes nothing.       *)
(***************************************************************************)
C2_DedupByTitle ==
    pc \notin FetchStages \cup {"aggregate"} =>
        /\ Titles(final_list) = Titles(list_1 \o list_2 \o list_3)
        /\ Range(final_list) \subseteq Range(list_1 \o list_2 \o list_3)
        /\ \A j, k \in 1..Len(final_list) :
              final_list[j].title = final_list[k].title => j = k
        /\ Range(DictOfTitles(final_list, 1, <<>>)) = Range(final_list)
        /\ Len(DictOfTitles(final_list, 1, <<>>)) = Len(final_list)

\* two adapters gave a candidate of the same title and one of them is left
C2_Witness ==
    /\ pc = "analyze"
    /\ \E a \in Range(list_1) : \E b \in Range(list_2) \cup Range(list_3) :
          a.title = b.title
    /\ Len(final_list) < Len(list_1) + Len(list_2) + Len(list_3)
    /\ Len(final_list) > 0

(***************************************************************************)
(* C3. Threshold enforcement and ranking: once sorted, the winners are      *)
(* exactly the judged candidates whose reply carries a numeric score of at  *)
(* least 6 (none with a lower, absent or non-numeric score), each with its  *)
(* own reply, in descending order of score.                                 *)
(***************************************************************************)
Accepted(reply) ==
    ~reply.raises /\ reply.json /\ reply.score.tag = "num" /\ reply.score.val >= 6

C3_ThresholdAndRanking ==
    pc \in Sorted =>
        /\ Uids([k \in 1..Len(winners) |-> winners[k].original])
             = { verdicts[k].uid : k \in { j \in 1..Len(verdicts) : Accepted(verdicts[j].reply) } }
        /\ \A k \in 1..Len(winners) :
              /\ [uid |-> winners[k].original.uid, reply |-> winners[k].ai_data]
                    \in Range(verdicts)
              /\ \A j \in 1..Len(winners) :
                    j # k => winners[j].original.uid # winners[k].original.uid
        /\ \A j, k \in 1..Len(winners) :
              j < k => winners[j].ai_data.score.val >= winners[k].ai_data.score.val

\* the scores 5, 6 and 9 were given, in an order the sort had to change
C3_Witness ==
    /\ pc = "done"
    /\ \E k \in 1..Len(verdicts) :
          verdicts[k].reply.score.tag = "num" /\ verdicts[k].reply.score.val = 5
    /\ [k \in 1..Len(results) |-> results[k].ai_data.score.val] = <<6, 9>>
    /\ [k \in 1..Len(winners) |-> winners[k].ai_data.score.val] = <<9, 6>>

(***************************************************************************)
(* C4. Fault isolation: a request whose HTTP call raises appends nothing,   *)
(* every request, before or after it, appends its own candidates to what    *)
(* the earlier ones left, and the run goes on to the next request or to     *)
(* aggregation.                                                             *)
(***************************************************************************)
IsPrefix(a, b) == Len(a) <= Len(b) /\ SubSeq(b, 1, Len(a)) = a

AfterRequest(stage, q, f) ==
    IF stage = "openalex" THEN (IF q = NumQueries THEN "osf" ELSE "openalex")
    ELSE IF stage = "osf" THEN "rss"
    ELSE (IF f = NumFeeds THEN "aggregate" ELSE "rss")

IsolatedStep ==
        pc \in FetchStages =>
          /\ pc' = AfterRequest(pc, qi, fi)
          /\ IsPrefix(list_1, list_1') /\ IsPrefix(list_2, list_2') /\ IsPrefix(list_3, list_3')
          /\ Len(list_1') + Len(list_2') + Len(list_3')
               = Len(list_1) + Len(list_2) + Len(list_3) + Len(last'.out.articles)
          /\ last'.resp.raises =>
               /\ last'.out.articles = <<>>
               /\ list_1' = list_1 /\ list_2' = list_2 /\ list_3' = list_3

\* C4: every request of the fetch stage is such a step: a raising request
\* appends nothing, the others' candidates stay, the run goes on
C4_FaultIsolation == [][IsolatedStep]_vars

\* the last feed could not be fetched; the candidates of OpenAlex and of OSF
\* are there and the run is at the aggregation
C4_Witness ==
    /\ pc = "aggregate"
    /\ last.adapter = "rss" /\ last.resp.raises
    /\ list_1 # <<>> /\ list_2 # <<>> /\ list_3 = <<>>

(***************************************************************************)
(* C5. Non-success status: a request answered with a status outside 2xx     *)
(* appends no candidate, whatever the body.                                 *)
(***************************************************************************)
C5_NonSuccessYieldsNothing ==
    (last.adapter # "none" /\ ~last.resp.raises /\ last.resp.status \notin 200..299)
        => last.out.articles = <<>>

(***************************************************************************)
(* C6. Malformed-verdict exclusion: a candidate whose reply is not JSON or  *)
(* lacks score, headline or reason is not among the winners, every selected *)
(* candidate is judged, and rendering does not crash.                       *)
(***************************************************************************)
Malformed(reply) ==
    ~reply.raises
    /\ (~reply.json \/ reply.score.tag = "absent" \/ ~reply.headline \/ ~reply.reason)

C6_MalformedVerdictExcluded ==
    /\ pc # "crashed"
    /\ pc \in Sorted =>
          /\ Len(verdicts) = Len(selection)
          /\ \A k \in 1..Len(verdicts) :
                Malformed(verdicts[k].reply) =>
                    verdicts[k].uid \notin Uids([j \in 1..Len(winners) |-> winners[j].original])

(***************************************************************************)
(* C7. Item-granularity parse recovery: in a response that was parsed,      *)
(* every well-formed item that passes the adapter's filters yields its      *)
(* candidate, whatever the other items of the response are.                 *)
(***************************************************************************)
Parsed(request) ==
    /\ request.adapter # "none"
    /\ ~request.resp.raises
    /\ request.resp.parsable
    /\ request.adapter = "openalex" => request.resp.status = 200

ItemAct(request, k) ==
    LET item == request.resp.items[k]
        uid == <<request.adapter, request.idx, k>>
    IN  IF request.adapter = "openalex" THEN OpenAlexItem(item, request.idx, uid).act
        ELSE IF request.adapter = "osf" THEN OsfItem(item, uid).act
        ELSE RssEntry(item, request.resp.feedtitle, uid).act

C7_ItemGranularity ==
    Parsed(last) =>
        \A k \in 1..Len(Truncate(last.resp.items,
                                 IF last.adapter = "rss" THEN RssEntryCap
                                 ELSE Len(last.resp.items))) :
            ItemAct(last, k) = "emit"
                => <<last.adapter, last.idx, k>> \in Uids(last.out.articles)

(***************************************************************************)
(* C8. Populated fields: every candidate has a non-empty title and a        *)
(* non-empty source label.                                                  *)
(***************************************************************************)
C8_PopulatedFields ==
    \A a \in Candidates :
        /\ a.title # <<>>
        /\ \E k \in 1..Len(a.source) : a.source[k] # ""

(***************************************************************************)
(* C9. Per-candidate lifecycle.                                             *)
(***************************************************************************)
Judged == {"DroppedJudgment", "Discarded", "Winner"}

\* no candidate moves backward or leaves a state it cannot leave
Forward(before, after) ==
    /\ \A u \in DOMAIN before :
          /\ u \in DOMAIN after
          /\ after[u] # before[u] => (before[u] = "Pending" /\ after[u] \in Judged)
    /\ \A u \in DOMAIN after \ DOMAIN before : after[u] \in {"DroppedRelevance", "Pending"}

\* no candidate is sent to the judgment service twice
JudgedOnce ==
    \A j, k \in 1..Len(verdicts) : verdicts[j].uid = verdicts[k].uid => j = k

\* the recorded state of each candidate is the one the lists give it
LifeMatchesLists ==
    \A u \in DOMAIN life :
        /\ life[u] # "DroppedRelevance" <=> u \in Uids(list_1 \o list_2 \o list_3)
        /\ life[u] \in Judged <=> u \in { verdicts[k].uid : k \in 1..Len(verdicts) }
        /\ life[u] = "Winner" <=> u \in Uids([k \in 1..Len(results) |-> results[k].original])

ClaimedStep ==
        /\ Forward(life, life')
        /\ JudgedOnce'
        /\ pc' = "done" =>
              \A u \in DOMAIN life' : life'[u] \in Judged \cup {"DroppedRelevance"}

\* C9 as claimed: each fetched candidate only moves forward, is judged at most
\* once, and is in a terminal state (Dropped, Discarded, Winner) when the run
\* has finished rendering
C9_Original == [][ClaimedStep]_vars

LifecycleStep ==
        /\ Forward(life, life')
        /\ JudgedOnce'
        /\ LifeMatchesLists'
        /\ pc' = "done" =>
              \A u \in DOMAIN life' :
                  IF u \in Uids(selection')
                  THEN life'[u] \in Judged
                  ELSE /\ life'[u] \in {"DroppedRelevance", "Pending"}
                       /\ life'[u] = "Pending" =>
                            \/ Len(final_list') > MaxAnalyzed
                            \/ \E a \in Range(list_1 \o list_2 \o list_3) :
                                  \E b \in Range(final_list') :
                                      a.uid = u /\ b.uid # u /\ b.title = a.title

\* C9 as amended: each fetched candidate only moves forward and is judged at
\* most once; when the run has finished rendering, every candidate selected
\* for judgment is Dropped(judgment-failure), Discarded or Winner, and every
\* other one is Dropped(relevance) or still Pending (superseded by a candidate
\* of the same title, or beyond the cap of 25)
C9_Lifecycle == [][LifecycleStep]_vars

\* a run rendered a winner and left a candidate beyond the cap unjudged
C9_Witness ==
    /\ pc = "done"
    /\ Len(selection) = MaxAnalyzed /\ Len(final_list) > MaxAnalyzed
    /\ \E u \in DOMAIN life : life[u] = "Winner"
    /\ \E u \in DOMAIN life : life[u] = "Pending"

(***************************************************************************)
(* C10. Include keywords of the OSF adapter: every candidate of             *)
(* fetch_osf_preprints has an include keyword as a case-insensitive         *)
(* substring of its title followed by its summary.                          *)
(***************************************************************************)
C10_IncludeKeyword ==
    \A a \in Range(list_2) : HasKeyword(a.title \o a.summary)

====
